---- MODULE Spec2Model ----
(***************************************************************************)
(* scimilarity: the batched embedder and the kNN index adapter of          *)
(* CellEmbedding (cell_embedding.py), and the multi-source dataset view    *)
(* with its weighted dataloader (zarr_data_models.py).                     *)
(*                                                                         *)
(* Row and store indices are 0-based as in the Python source; TLA+         *)
(* sequences are 1-based, so row r of X is X[r + 1].                       *)
(***************************************************************************)
EXTENDS Integers, Sequences, FiniteSets, TLC

\* ------------------------------------------------------------------ bounds
MaxRows == 3
MaxChunk == 3

VARIABLES
    \* CellEmbedding.get_embeddings
    X,          \* the expression matrix: a sequence of row profiles
    kind,       \* its representation: ndarray, tensor, csr, csr_zarr, other
    use_gpu,    \* self.use_gpu
    args,       \* the arguments of the last call, or NoCall
    parts,      \* embedding_parts of the last call: the chunks, in order
    embedding,  \* the stacked embedding the last call produced (<<>> if none)
    outcome,    \* how the last call ended
    \* CellEmbedding.load_knn_index / get_nearest_neighbors
    fs,          \* the file system: what each path names
    knn,         \* self.knn
    knn_before,  \* self.knn as it was before the last operation
    last_load,   \* the last load_knn_index call and what os.path.isfile said
    knn_op,      \* the last adapter operation: none, load, query
    knn_outcome, \* how it ended
    knn_result,  \* the shape of what the last query returned
    \* scDatasetFromList / MetricLearningZarrDataModule
    data_list,   \* the stores: each a sequence of rows [label, study]
    ncells_list, ncells, data_idx, cell_idx,
    item,        \* what the last __getitem__ returned
    train_Y, train_study, batch_size,
    weights,     \* the sampler's weights
    phase,       \* the dataloader: idle, ready, iterating, done, error
    drawn,       \* indices taken from the sampler this epoch
    batches,     \* batches yielded this epoch
    batch        \* the last batch yielded: its sampled indices

embedVars == <<X, kind, use_gpu, args, parts, embedding, outcome>>

knnVars == <<fs, knn, knn_before, last_load, knn_op, knn_outcome, knn_result>>

viewVars == <<data_list, ncells_list, ncells, data_idx, cell_idx, item>>

loaderVars == <<train_Y, train_study, batch_size, weights, phase, drawn,
                batches, batch>>

vars == <<embedVars, knnVars, viewVars, loaderVars>>

\* ------------------------------------------------------------ pure helpers
Min(a, b) == IF a < b THEN a ELSE b

RECURSIVE Flatten(_)
Flatten(ss) == IF ss = <<>> THEN <<>> ELSE Head(ss) \o Flatten(Tail(ss))

SeqsUpTo(S, n) == UNION {[1..m -> S] : m \in 0..n}

\* ------------------------------------------------- CellEmbedding.get_embeddings
\* A row profile stands for one cell's expression row; the encoder is an opaque
\* collaborator that maps each row of a chunk independently to one embedding
\* entry, which may be finite, NaN, +Inf or -Inf.
Profiles == {"p0", "pNaN", "pPosInf", "pNegInf"}

EncodeRow(p) ==
    CASE p = "p0" -> "e0"
      [] p = "pNaN" -> "NaN"
      [] p = "pPosInf" -> "+Inf"
      [] p = "pNegInf" -> "-Inf"

\* self.model(profiles): one embedding row per profile row, in order
Encoder(profiles) == [t \in 1..Len(profiles) |-> EncodeRow(profiles[t])]

Kinds == {"ndarray", "tensor", "csr", "csr_zarr", "other"}

NoCall == [num_cells |-> -2, buffer_size |-> 0]

\* mutant: the -1 sentinel is not resolved
ResolveNumCells_NoSentinel(num_cells, x) == num_cells

\* if num_cells == -1: num_cells = X.shape[0]
ResolveNumCells(num_cells, x) == IF num_cells = -1 THEN Len(x) ELSE num_cells

\* mutant: the trailing partial chunk is dropped
ChunkStarts_Floor(num_cells, buffer_size) ==
    IF num_cells <= 0 THEN <<>>
    ELSE [j \in 1..(num_cells \div buffer_size) |-> (j - 1) * buffer_size]

\* range(0, num_cells, buffer_size), buffer_size >= 1
ChunkStarts(num_cells, buffer_size) ==
    IF num_cells <= 0 THEN <<>>
    ELSE [j \in 1..((num_cells + buffer_size - 1) \div buffer_size)
              |-> (j - 1) * buffer_size]

\* the row indices X[i : j] selects from an R-row matrix (Python slicing clips
\* both ends to the number of rows)
SliceRows(R, i, j) ==
    [t \in 1..(Min(j, R) - Min(i, R)) |-> Min(i, R) + t - 1]

\* X[i : i + buffer_size] as a dense tensor: the selected rows, in order
ChunkProfiles(x, i, buffer_size) ==
    LET rows == SliceRows(Len(x), i, i + buffer_size)
    IN  [t \in 1..Len(rows) |-> x[rows[t] + 1]]

\* a csr matrix backed by lazily fetched arrays is materialised in memory
\* when the whole request fits one chunk
Materialise(k, num_cells, buffer_size) ==
    IF k = "csr_zarr" /\ num_cells <= buffer_size THEN "csr" ELSE k

\* one iteration of the loop: the chunk handed to the encoder and what it gave
Part(x, i, buffer_size) ==
    [rows |-> SliceRows(Len(x), i, i + buffer_size),
     out  |-> Encoder(ChunkProfiles(x, i, buffer_size))]

\* mutant: the check rejects every non-finite entry
HasNaN_AnyNonFinite(emb) ==
    \E t \in 1..Len(emb) : emb[t] \in {"NaN", "+Inf", "-Inf"}

\* np.isnan(embedding).any()
HasNaN(emb) == \E t \in 1..Len(emb) : emb[t] = "NaN"

\* the whole of get_embeddings: the parts, the stacked embedding, the outcome
GetEmbeddingsResult(x, k, num_cells_arg, buffer_size) ==
    LET num_cells == ResolveNumCells(num_cells_arg, x)
        kAfter == Materialise(k, num_cells, buffer_size)
        starts == ChunkStarts(num_cells, buffer_size)
        ps     == [j \in 1..Len(starts) |-> Part(x, starts[j], buffer_size)]
        emb    == Flatten([j \in 1..Len(ps) |-> ps[j].out])
    IN  IF starts # <<>> /\ kAfter = "other"
        THEN [kind |-> kAfter, parts |-> <<>>, embedding |-> <<>>,
              outcome |-> "UnsupportedInputType"]
        ELSE IF ps = <<>>
        THEN [kind |-> kAfter, parts |-> <<>>, embedding |-> <<>>,
              outcome |-> "EmptyInput"]
        ELSE IF HasNaN(emb)
        THEN [kind |-> kAfter, parts |-> ps, embedding |-> emb,
              outcome |-> "NumericalInstability"]
        ELSE [kind |-> kAfter, parts |-> ps, embedding |-> emb,
              outcome |-> "ok"]

GetEmbeddings(num_cells, buffer_size) ==
    LET r == GetEmbeddingsResult(X, kind, num_cells, buffer_size)
    IN  /\ args' = [num_cells |-> num_cells, buffer_size |-> buffer_size]
        /\ kind' = r.kind
        /\ parts' = r.parts
        /\ embedding' = r.embedding
        /\ outcome' = r.outcome
        /\ UNCHANGED <<X, use_gpu>>
        /\ UNCHANGED <<knnVars, viewVars, loaderVars>>

\* ------------------------------- CellEmbedding.load_knn_index / get_nearest_neighbors
MaxK == 2
MaxEf == 2
MaxQueryRows == 2

Paths == {"a.bin", "b.bin"}

\* what a path names: nothing (or a directory), a loadable index file, or a
\* file hnswlib cannot load
FileKinds == {"missing", "index", "corrupt"}

\* self.knn = None
NoIndex == [held |-> FALSE, file |-> "", loaded |-> FALSE, ef |-> 0]

NoLoad == [done |-> FALSE, path |-> "", existed |-> FALSE]

NoResult == [rows |-> 0, k |-> 0]

\* os.path.isfile(knn_file)
IsFile(files, knn_file) == files[knn_file] # "missing"

\* mutant: a missing file leaves the earlier index in place
KnnAfterLoad_KeepsPrior(cur, files, knn_file) ==
    IF IsFile(files, knn_file)
    THEN [held |-> TRUE, file |-> knn_file,
          loaded |-> (files[knn_file] = "index"), ef |-> 0]
    ELSE cur

\* self.knn after load_knn_index(knn_file): a fresh index object that
\* load_index fills, or None when the path is no file
KnnAfterLoad(cur, files, knn_file) ==
    IF IsFile(files, knn_file)
    THEN [held |-> TRUE, file |-> knn_file,
          loaded |-> (files[knn_file] = "index"), ef |-> 0]
    ELSE NoIndex

\* load_knn_index raises only out of hnswlib's load_index
LoadOutcome(files, knn_file) ==
    IF IsFile(files, knn_file) /\ files[knn_file] = "corrupt"
    THEN "LoadError" ELSE "ok"

LoadKnnIndex(knn_file) ==
    /\ knn_before' = knn
    /\ knn' = KnnAfterLoad(knn, fs, knn_file)
    /\ last_load' = [done |-> TRUE, path |-> knn_file,
                     existed |-> IsFile(fs, knn_file)]
    /\ knn_op' = "load"
    /\ knn_outcome' = LoadOutcome(fs, knn_file)
    /\ knn_result' = NoResult
    /\ UNCHANGED fs
    /\ UNCHANGED <<embedVars, viewVars, loaderVars>>

\* mutant: no None check before the index is used
QueryOutcome_NoGuard(cur) == IF ~cur.loaded THEN "QueryError" ELSE "ok"

\* if self.knn is None: raise RuntimeError("kNN is not initialized. ...")
QueryOutcome(cur) ==
    IF ~cur.held THEN "IndexNotInitialized"
    ELSE IF ~cur.loaded THEN "QueryError"
    ELSE "ok"

\* self.knn.set_ef(ef) runs only past the None check
KnnAfterQuery(cur, ef) == IF cur.held THEN [cur EXCEPT !.ef = ef] ELSE cur

GetNearestNeighbors(rows, k, ef) ==
    /\ knn_before' = knn
    /\ knn' = KnnAfterQuery(knn, ef)
    /\ knn_op' = "query"
    /\ knn_outcome' = QueryOutcome(knn)
    /\ knn_result' = IF QueryOutcome(knn) = "ok"
                     THEN [rows |-> rows, k |-> k] ELSE NoResult
    /\ UNCHANGED <<fs, last_load>>
    /\ UNCHANGED <<embedVars, viewVars, loaderVars>>

\* the environment creates, replaces or removes a file between calls
FsChange(p, fk) ==
    /\ fs[p] # fk
    /\ fs' = [fs EXCEPT ![p] = fk]
    /\ UNCHANGED <<knn, knn_before, last_load, knn_op, knn_outcome, knn_result>>
    /\ UNCHANGED <<embedVars, viewVars, loaderVars>>

\* ------------------------------------------------------------ scDatasetFromList
MaxStores == 2
MaxStoreRows == 2

Labels == {"T cell", "B cell"}
Studies == {"study1", "study2"}

\* a store: its rows' annotations; every row of a store is of one study here
StoreSet ==
    UNION {{[t \in 1..m |-> [label |-> ls[t], study |-> s]] :
                ls \in [1..m -> Labels], s \in Studies} : m \in 0..MaxStoreRows}

\* self.ncells_list = [data.shape[0] for data in data_list]
NcellsList(dl) == [n \in 1..Len(dl) |-> Len(dl[n])]

\* sum(self.ncells_list)
RECURSIVE SumSeq(_)
SumSeq(ns) == IF ns = <<>> THEN 0 ELSE Head(ns) + SumSeq(Tail(ns))

\* [n for n in range(len(ncells_list)) for i in range(ncells_list[n])],
\* from store n on
RECURSIVE DataIdxFrom(_, _)
DataIdxFrom(nl, n) ==
    IF n >= Len(nl) THEN <<>>
    ELSE [i \in 1..nl[n + 1] |-> n] \o DataIdxFrom(nl, n + 1)

\* [i for n in range(len(ncells_list)) for i in range(ncells_list[n])],
\* from store n on
RECURSIVE CellIdxFrom(_, _)
CellIdxFrom(nl, n) ==
    IF n >= Len(nl) THEN <<>>
    ELSE [i \in 1..nl[n + 1] |-> i - 1] \o CellIdxFrom(nl, n + 1)

\* mutant: the row offset is not restarted at each store
CellIdx_Global(nl) == [i \in 1..SumSeq(nl) |-> i - 1]

DataIdx(nl) == DataIdxFrom(nl, 0)

CellIdx(nl) == CellIdxFrom(nl, 0)

NoItem == [ok |-> FALSE, store |-> 0, row |-> 0, label |-> "", study |-> ""]

\* __getitem__(idx) for 0 <= idx; past the end the list lookup raises IndexError
GetItemResult(dl, didx, cidx, idx) ==
    IF idx >= Len(didx) THEN NoItem
    ELSE LET d == didx[idx + 1]
             c == cidx[idx + 1]
         IN  [ok |-> TRUE, store |-> d, row |-> c,
              label |-> dl[d + 1][c + 1].label,
              study |-> dl[d + 1][c + 1].study]

GetItem(idx) ==
    /\ item' = GetItemResult(data_list, data_idx, cell_idx, idx)
    /\ UNCHANGED <<data_list, ncells_list, ncells, data_idx, cell_idx>>
    /\ UNCHANGED <<embedVars, knnVars, loaderVars>>

\* scDatasetFromList.__init__
ViewBuilt(dl) ==
    /\ data_list = dl
    /\ ncells_list = NcellsList(dl)
    /\ ncells = SumSeq(NcellsList(dl))
    /\ data_idx = DataIdx(NcellsList(dl))
    /\ cell_idx = CellIdx(NcellsList(dl))
    /\ item = NoItem

\* ------------------------------------------------ MetricLearningZarrDataModule
MaxBatch == 3

\* self.train_Y.extend(zarr_data.get_obs(obs_field)...) over the stores
TrainY(dl) ==
    Flatten([n \in 1..Len(dl) |-> [t \in 1..Len(dl[n]) |-> dl[n][t].label]])

\* self.train_study.extend(zarr_data.get_obs("study")...) over the stores
TrainStudy(dl) ==
    Flatten([n \in 1..Len(dl) |-> [t \in 1..Len(dl[n]) |-> dl[n][t].study]])

\* Counter(seq)[v]
Count(seq, v) == Cardinality({i \in 1..Len(seq) : seq[i] = v})

\* np.log(n) in thousandths, rounded down: 0 for n = 1, positive above
LnMilli(n) ==
    <<0, 693, 1098, 1386, 1609, 1791, 1945, 2079, 2197, 2302, 2397, 2484>>[n]

\* a weight num / den; float division by 0.0 gives +inf, kept as finite = FALSE
\* 1.0 / class_count
LabelWeight(class_count) ==
    [finite |-> TRUE, num |-> 1, den |-> class_count]

\* 1.0 / class_count / np.log(study_count)
LabelStudyWeight(class_count, study_count) ==
    IF LnMilli(study_count) = 0
    THEN [finite |-> FALSE, num |-> 1, den |-> 0]
    ELSE [finite |-> TRUE, num |-> 1000,
          den |-> class_count * LnMilli(study_count)]

\* get_sampler_weights: sample_weights
SamplerWeights(labels, studies, with_studies) ==
    IF ~with_studies
    THEN [i \in 1..Len(labels) |-> LabelWeight(Count(labels, labels[i]))]
    ELSE [i \in 1..Len(labels) |->
              LabelStudyWeight(Count(labels, labels[i]),
                               Count(studies, studies[i]))]

\* WeightedRandomSampler(sample_weights, len(sample_weights)) refuses
\* num_samples = 0
SamplerBuilt(w) == Len(w) > 0

\* torch.multinomial refuses a weight vector holding inf
CanDraw(w) == \A i \in 1..Len(w) : w[i].finite

\* the indices a draw can give: those of positive weight
Drawable(w) == {i \in 0..(Len(w) - 1) : w[i + 1].num > 0}

\* train_dataloader(): the sampler over train_Y and train_study, drop_last
TrainDataloader ==
    /\ weights' = SamplerWeights(train_Y, train_study, TRUE)
    /\ phase' = IF SamplerBuilt(SamplerWeights(train_Y, train_study, TRUE))
                THEN "ready" ELSE "sampler_error"
    /\ drawn' = 0
    /\ batches' = 0
    /\ batch' = <<>>
    /\ UNCHANGED <<train_Y, train_study, batch_size>>
    /\ UNCHANGED <<embedVars, knnVars, viewVars>>

\* whether the batch sampler can fill one more batch from the epoch's draws
HasFullBatch(num_samples, taken, size) == taken + size <= num_samples

\* the first next() of an epoch draws the epoch's indices; inf weights make
\* the draw raise
NextBatchFail ==
    /\ phase = "ready"
    /\ ~CanDraw(weights)
    /\ phase' = "draw_error"
    /\ UNCHANGED <<train_Y, train_study, batch_size, weights, drawn, batches,
                   batch>>
    /\ UNCHANGED <<embedVars, knnVars, viewVars>>

\* next(): batch_size sampled indices, each row fetched with __getitem__
NextBatchYield ==
    /\ phase \in {"ready", "iterating"}
    /\ CanDraw(weights)
    /\ HasFullBatch(Len(weights), drawn, batch_size)
    /\ \E b \in [1..batch_size -> Drawable(weights)] :
          /\ batch' = b
          /\ item' = GetItemResult(data_list, data_idx, cell_idx,
                                   b[batch_size])
    /\ drawn' = drawn + batch_size
    /\ batches' = batches + 1
    /\ phase' = "iterating"
    /\ UNCHANGED <<train_Y, train_study, batch_size, weights>>
    /\ UNCHANGED <<data_list, ncells_list, ncells, data_idx, cell_idx>>
    /\ UNCHANGED <<embedVars, knnVars>>

\* next() at the end of the epoch: the draws left are fewer than a batch and
\* are dropped (drop_last=True)
NextBatchStop ==
    /\ phase \in {"ready", "iterating"}
    /\ CanDraw(weights)
    /\ ~HasFullBatch(Len(weights), drawn, batch_size)
    /\ drawn' = Len(weights)
    /\ phase' = "done"
    /\ UNCHANGED <<train_Y, train_study, batch_size, weights, batches, batch>>
    /\ UNCHANGED <<embedVars, knnVars, viewVars>>

\* ------------------------------------------------------------ specifications
IdleEmbed ==
    /\ X = <<>>
    /\ kind = "ndarray"
    /\ use_gpu = FALSE
    /\ args = NoCall
    /\ parts = <<>>
    /\ embedding = <<>>
    /\ outcome = "none"

IdleKnn ==
    /\ fs = [p \in Paths |-> "missing"]
    /\ knn = NoIndex
    /\ knn_before = NoIndex
    /\ last_load = NoLoad
    /\ knn_op = "none"
    /\ knn_outcome = "none"
    /\ knn_result = NoResult

IdleView ==
    /\ data_list = <<>>
    /\ ncells_list = <<>>
    /\ ncells = 0
    /\ data_idx = <<>>
    /\ cell_idx = <<>>
    /\ item = NoItem

IdleLoader ==
    /\ train_Y = <<>>
    /\ train_study = <<>>
    /\ batch_size = 1
    /\ weights = <<>>
    /\ phase = "idle"
    /\ drawn = 0
    /\ batches = 0
    /\ batch = <<>>

\* the state after CellEmbedding.__init__, with the matrix the caller holds
InitEmbed ==
    /\ X \in SeqsUpTo(Profiles, MaxRows)
    /\ kind \in Kinds
    /\ use_gpu \in BOOLEAN
    /\ args = NoCall
    /\ parts = <<>>
    /\ embedding = <<>>
    /\ outcome = "none"
    /\ IdleKnn /\ IdleView /\ IdleLoader

NextEmbed ==
    \E num_cells \in -1..(MaxRows + 1), buffer_size \in 1..MaxChunk :
        GetEmbeddings(num_cells, buffer_size)

SpecEmbed == InitEmbed /\ [][NextEmbed]_vars

\* self.knn = None in __init__
InitKnn ==
    /\ fs \in [Paths -> FileKinds]
    /\ knn = NoIndex
    /\ knn_before = NoIndex
    /\ last_load = NoLoad
    /\ knn_op = "none"
    /\ knn_outcome = "none"
    /\ knn_result = NoResult
    /\ IdleEmbed /\ IdleView /\ IdleLoader

NextKnn ==
    \/ \E p \in Paths : LoadKnnIndex(p)
    \/ \E rows \in 1..MaxQueryRows, k \in 1..MaxK, ef \in 1..MaxEf :
          GetNearestNeighbors(rows, k, ef)
    \/ \E p \in Paths, fk \in FileKinds : FsChange(p, fk)

SpecKnn == InitKnn /\ [][NextKnn]_vars

InitView ==
    /\ \E dl \in SeqsUpTo(StoreSet, MaxStores) : ViewBuilt(dl)
    /\ IdleEmbed /\ IdleKnn /\ IdleLoader

NextView == \E idx \in 0..ncells : GetItem(idx)

SpecView == InitView /\ [][NextView]_vars

\* MetricLearningZarrDataModule.__init__ for the train split
InitLoader ==
    /\ \E dl \in SeqsUpTo(StoreSet, MaxStores) :
          /\ ViewBuilt(dl)
          /\ train_Y = TrainY(dl)
          /\ train_study = TrainStudy(dl)
    /\ batch_size \in 1..MaxBatch
    /\ weights = <<>>
    /\ phase = "idle"
    /\ drawn = 0
    /\ batches = 0
    /\ batch = <<>>
    /\ IdleEmbed /\ IdleKnn

NextLoader ==
    \/ TrainDataloader
    \/ NextBatchFail
    \/ NextBatchYield
    \/ NextBatchStop
    \/ \E idx \in 0..ncells : GetItem(idx)

SpecLoader == InitLoader /\ [][NextLoader]_vars

\* ------------------------------------------------------------------ claims
Called == args # NoCall

\* the rows handed to the encoder, in processing order
ProcessedRows == Flatten([j \in 1..Len(parts) |-> parts[j].rows])

RowRange(n) == [t \in 1..n |-> t - 1]

RowwiseEmbedding(n) == [t \in 1..n |-> EncodeRow(X[t])]

\* C1: the adapter holds an index exactly when the most recent load named an
\* existing file, and a query fails with IndexNotInitialized exactly when no
\* index is held.
C1_QueryFailsIffNoIndex ==
    /\ knn.held <=> (last_load.done /\ last_load.existed)
    /\ knn_op = "query" =>
          ((knn_outcome = "IndexNotInitialized") <=> ~knn.held)

C1_Witness ==
    /\ knn_op = "query"
    /\ knn_outcome = "IndexNotInitialized"
    /\ last_load.done
    /\ ~last_load.existed

\* C2: a load of a path that is no existing file does not raise and leaves no
\* index held, also when an index was held before it.
C2_MissingPathClearsIndex ==
    (knn_op = "load" /\ ~last_load.existed) =>
        (~knn.held /\ knn_outcome = "ok")

C2_Witness ==
    /\ knn_op = "load"
    /\ ~last_load.existed
    /\ knn_before.held
    /\ knn_before.loaded

\* C3 (as claimed): with 1 <= num_cells <= R on a supported input, the rows
\* embedded are exactly rows 0 .. num_cells-1, in order.
C3_ExactlyNumRows ==
    (Called /\ kind # "other" /\ 1 <= args.num_cells
            /\ args.num_cells <= Len(X)) =>
        /\ ProcessedRows = RowRange(args.num_cells)
        /\ embedding = RowwiseEmbedding(args.num_cells)

NonFinite == {"NaN", "+Inf", "-Inf"}

C5_ZeroRowsFailEmpty ==
    (Called /\ kind # "other") =>
        /\ ProcessedRows = <<>> => outcome = "EmptyInput"
        /\ outcome = "ok" => Len(embedding) > 0

\* C6: with num_cells = -1 the chunks handed to the encoder, concatenated in
\* processing order, are rows 0 .. R-1 each once and in order, and the stacked
\* embedding is the row-wise encoding of them ...
C6_AllRowsOnce ==
    (Called /\ args.num_cells = -1 /\ kind # "other") =>
        /\ ProcessedRows = RowRange(Len(X))
        /\ Flatten([j \in 1..Len(parts) |-> parts[j].out])
              = RowwiseEmbedding(Len(X))

\* ... so two calls with num_cells = -1 on the same input end the same way
\* whatever their chunk sizes.
C6_SameForAnyChunk ==
    (args.num_cells = -1 /\ args'.num_cells = -1) =>
        (outcome' = outcome /\ embedding' = embedding)

\* C6: chunking invariance.
C6_ChunkingInvariance == []C6_AllRowsOnce /\ [][C6_SameForAnyChunk]_vars

C6_Witness ==
    /\ args.num_cells = -1
    /\ outcome = "ok"
    /\ Len(parts) >= 2
    /\ Len(parts[Len(parts)].rows) < args.buffer_size

\* a call with num_cells = -1 or num_cells = R processes rows 0 .. R-1
C10_ProcessesAllRows ==
    (Called /\ kind # "other" /\ args.num_cells \in {-1, Len(X)}) =>
        ProcessedRows = RowRange(Len(X))

\* a call with num_cells = -1 next to one with num_cells = R and the same
\* chunk size: same chunks, same embedding, same outcome
C10_SameAsExplicit ==
    (/\ args.buffer_size = args'.buffer_size
     /\ \/ args.num_cells = Len(X) /\ args'.num_cells = -1
        \/ args.num_cells = -1 /\ args'.num_cells = Len(X)) =>
        (outcome' = outcome /\ embedding' = embedding /\ parts' = parts)

\* C10: num_cells = -1 processes the same rows and ends the same way as
\* num_cells = R, for every chunk size.
C10_SentinelIsAllRows == []C10_ProcessesAllRows /\ [][C10_SameAsExplicit]_vars

C10_Witness ==
    /\ args.num_cells = -1
    /\ outcome = "ok"
    /\ Len(X) >= 2
    /\ Len(embedding) = Len(X)

\* rows of store d (0-based), and the rows of the stores before it
StoreRows(d) == Len(data_list[d + 1])

RowsBefore(d) == SumSeq([e \in 1..d |-> Len(data_list[e])])

C7_Mapping ==
    LET n == Len(data_list)
        total == RowsBefore(n)
    IN  /\ Len(data_idx) = total
        /\ Len(cell_idx) = total
        /\ ncells = total
        /\ \A idx \in 0..(total - 1) :
              LET d == data_idx[idx + 1]
                  c == cell_idx[idx + 1]
              IN  /\ d \in 0..(n - 1)
                  /\ 0 <= c
                  /\ c < StoreRows(d)
                  /\ idx = RowsBefore(d) + c
        /\ \A d \in 0..(n - 1) : \A c \in 0..(StoreRows(d) - 1) :
              Cardinality({idx \in 0..(total - 1) :
                              data_idx[idx + 1] = d /\ cell_idx[idx + 1] = c}) = 1

C7_Stable == data_idx' = data_idx /\ cell_idx' = cell_idx

\* C7: the two index sequences have length sum(R_i); every global index maps
\* to a valid (store, local row) pair with idx = R_0 + ... + R_{d-1} + row;
\* the map is a bijection onto all such pairs; __getitem__ never changes it.
C7_IndexMapping == []C7_Mapping /\ [][C7_Stable]_vars

C7_Witness ==
    /\ Len(data_list) >= 2
    /\ \E d \in 0..(Len(data_list) - 2) : StoreRows(d) = 0
    /\ item.ok
    /\ item.store = Len(data_list) - 1
    /\ item.row >= 1

\* C8 (as claimed): for a split of N >= 1 rows, an epoch of the dataloader
\* draws exactly N indices, each in [0, N), and yields exactly N div B batches
\* of exactly B rows.
C8_EpochBatches ==
    ncells >= 1 =>
        /\ phase \notin {"sampler_error", "draw_error"}
        /\ phase = "done" =>
              (drawn = ncells /\ batches = ncells \div batch_size)
        /\ batch # <<>> =>
              /\ Len(batch) = batch_size
              /\ \A t \in 1..Len(batch) : batch[t] \in 0..(ncells - 1)

\* C9 (as claimed): with studies supplied every row's weight is finite and
\* strictly positive.
C9_WeightsFinitePositive ==
    phase # "idle" =>
        \A i \in 1..Len(weights) :
            weights[i].finite /\ weights[i].num > 0 /\ weights[i].den > 0

====
